---------------------------- MODULE Spec2Model ----------------------------
(***************************************************************************)
(* Model of thuctran-smf/batch_processor: BatchConstraints, BatchMetrics   *)
(* and BatchProcessor (is_valid_record, the create_batches generator).     *)
(*                                                                         *)
(* A text value (Python str) is a sequence of Unicode code points; any     *)
(* other value is represented by its type name only.  The generator        *)
(* returned by create_batches is a record holding its local variables and  *)
(* the place where it is suspended; one action resumes it up to its next   *)
(* yield, its return or its exception, as next() does.                     *)
(***************************************************************************)
EXTENDS Integers, Sequences, FiniteSets, TLC

(***************************************************************************)
(* Bounds of the model.                                                    *)
(***************************************************************************)
MaxRecords == 3        \* longest input list
MaxValidateCalls == 1  \* direct calls of is_valid_record by the caller
MaxPairRecords == 2    \* longest input list when two traversals are made

(***************************************************************************)
(* Values.                                                                 *)
(***************************************************************************)
RECURSIVE SeqsUpTo(_, _)
SeqsUpTo(S, n) ==
    IF n = 0 THEN {<< >>}
    ELSE LET shorter == SeqsUpTo(S, n - 1)
         IN  shorter \cup {Append(s, c) : s \in {t \in shorter : Len(t) = n - 1}, c \in S}

Str(chars) == [type |-> "str", chars |-> chars]
NoneValue == [type |-> "NoneType", chars |-> << >>]

\* the text records of the model: "", "x" (1 byte in UTF-8), U+1F31F
\* (1 character, 4 bytes) and the lone surrogate U+D800, a str that
\* UTF-8 cannot encode
Texts == {Str(<< >>), Str(<<120>>), Str(<<127775>>), Str(<<55296>>)}
Values == Texts \cup {NoneValue}

\* arguments of create_batches: lists of values, None, and a tuple
ListOf(items) == [type |-> "list", items |-> items]
Inputs ==
    {ListOf(s) : s \in SeqsUpTo(Values, MaxRecords)}
        \cup {[type |-> "NoneType", items |-> << >>],
              [type |-> "tuple", items |-> <<Str(<<120>>)>>]}

\* arguments of the first create_batches call when the caller makes two:
\* lists of "x", U+1F31F and None, and None
PairInputs ==
    {ListOf(s) : s \in SeqsUpTo({Str(<<120>>), Str(<<127775>>), NoneValue},
                                MaxPairRecords)}
        \cup {[type |-> "NoneType", items |-> << >>]}

\* arguments of the second call: lists that give two batches or one, a
\* discard or none (by the constraints), an abort after a valid record,
\* and the empty list
SecondInputs ==
    {ListOf(<<Str(<<120>>), Str(<<127775>>)>>),
     ListOf(<<Str(<< >>), Str(<< >>)>>),
     ListOf(<<Str(<<127775>>), NoneValue>>),
     ListOf(<< >>)}

\* BatchConstraints(...) values the processor is constructed with
ConstraintChoices ==
    [max_record_size_bytes : {4, 34, 37},
     max_batch_size_bytes : {34, 70},
     max_records_per_batch : {1, 2}]

\* BatchMetrics(): all four counters zero
ZeroMetrics ==
    [records_processed |-> 0, records_discarded |-> 0,
     batches_created |-> 0, total_bytes_processed |-> 0]

(***************************************************************************)
(* str.encode('utf-8') and sys.getsizeof.                                  *)
(***************************************************************************)
IsSurrogate(cp) == cp >= 55296 /\ cp <= 57343

\* the UTF-8 bytes of one code point
Utf8Char(cp) ==
    IF cp < 128 THEN <<cp>>
    ELSE IF cp < 2048 THEN <<192 + (cp \div 64), 128 + (cp % 64)>>
    ELSE IF cp < 65536
         THEN <<224 + (cp \div 4096), 128 + ((cp \div 64) % 64), 128 + (cp % 64)>>
    ELSE <<240 + (cp \div 262144), 128 + ((cp \div 4096) % 64),
           128 + ((cp \div 64) % 64), 128 + (cp % 64)>>

\* str.encode raises UnicodeEncodeError on a surrogate code point
Encodable(chars) == \A i \in 1..Len(chars) : ~IsSurrogate(chars[i])

RECURSIVE Utf8Encode(_)
Utf8Encode(chars) ==
    IF chars = << >> THEN << >>
    ELSE Utf8Char(Head(chars)) \o Utf8Encode(Tail(chars))

\* sys.getsizeof(b'') on 64-bit CPython: the header of a bytes object
BytesHeaderSize == 33

\* sys.getsizeof of a bytes object: header plus one byte per element
GetSizeOf(bytes) == BytesHeaderSize + Len(bytes)

\* BatchProcessor._get_record_size, defined for encodable text
GetRecordSize(record) == GetSizeOf(Utf8Encode(record.chars))

(***************************************************************************)
(* State.                                                                  *)
(***************************************************************************)
VARIABLES
    constraints,   \* BatchProcessor.constraints
    metrics,       \* BatchProcessor.metrics
    gen,           \* the generator object returned by create_batches
    emitted,       \* the batches the caller has received from the generator
    start,         \* the counters when create_batches was called
    direct,        \* discards by direct is_valid_record calls since then
    last,          \* the caller's most recent call and its outcome
    calls,         \* number of direct is_valid_record calls made
    gen2,          \* the generator of a second create_batches call
    emitted2       \* the batches the caller has received from gen2

vars == <<constraints, metrics, gen, emitted, start, direct, last, calls,
          gen2, emitted2>>

\* no generator has been created yet
NoGen ==
    [pc |-> "none", records |-> ListOf(<< >>), idx |-> 0,
     current_batch |-> << >>, current_batch_size |-> 0]

\* a call as the caller sees it: the operation, the record passed to
\* is_valid_record, the exception raised ("none" when the call returns),
\* the value is_valid_record returned, and the counters before and after
Call(op, arg, exc, ret, before, after) ==
    [op |-> op, arg |-> arg, exc |-> exc, ret |-> ret,
     before |-> before, after |-> after]

NoCall == Call("__init__", NoneValue, "none", FALSE, ZeroMetrics, ZeroMetrics)

\* BatchProcessor.__init__
Init ==
    /\ constraints \in ConstraintChoices
    /\ metrics = ZeroMetrics
    /\ gen = NoGen
    /\ emitted = << >>
    /\ start = ZeroMetrics
    /\ direct = 0
    /\ last = NoCall
    /\ calls = 0
    /\ gen2 = NoGen
    /\ emitted2 = << >>

(***************************************************************************)
(* BatchProcessor.is_valid_record: the exception it raises ("none" when it *)
(* returns), the value it returns and the counters it leaves.              *)
(***************************************************************************)
\* is_valid_record without line 82: an oversized record is not counted
IsValidRecordUncounted(record, m) ==
    IF record.type # "str" \/ ~Encodable(record.chars)
    THEN [exc |-> "TypeError", ret |-> FALSE, metrics |-> m]
    ELSE [exc |-> "none",
          ret |-> GetRecordSize(record) <= constraints.max_record_size_bytes,
          metrics |-> m]

IsValidRecord(record, m) ==
    IF record.type # "str"
    THEN [exc |-> "TypeError", ret |-> FALSE, metrics |-> m]
    ELSE IF ~Encodable(record.chars)
    THEN [exc |-> "TypeError", ret |-> FALSE, metrics |-> m]
    ELSE LET record_size == GetRecordSize(record)
             is_valid == record_size <= constraints.max_record_size_bytes
         IN  [exc |-> "none", ret |-> is_valid,
              metrics |-> IF is_valid THEN m
                          ELSE [m EXCEPT !.records_discarded = @ + 1]]

(***************************************************************************)
(* The body of create_batches from the head of the for loop at element     *)
(* idx up to the next yield, the return or the exception.  The result is   *)
(* the generator's state there and the counters.                           *)
(***************************************************************************)
GenState(pc, records, idx, batch, size, m) ==
    [gen |-> [pc |-> pc, records |-> records, idx |-> idx,
              current_batch |-> batch, current_batch_size |-> size],
     metrics |-> m]

\* line 118 with > for >= in the count test
BatchFullCountOffByOne(batch, size, record_size) ==
    \/ size + record_size > constraints.max_batch_size_bytes
    \/ Len(batch) > constraints.max_records_per_batch

\* line 118 with >= for > in the byte test
BatchFullAtLimit(batch, size, record_size) ==
    \/ size + record_size >= constraints.max_batch_size_bytes
    \/ Len(batch) >= constraints.max_records_per_batch

\* line 118 without the byte test
BatchFullCountOnly(batch, size, record_size) ==
    Len(batch) >= constraints.max_records_per_batch

\* line 118: the record of size record_size cannot join the current batch
BatchFull(batch, size, record_size) ==
    \/ size + record_size > constraints.max_batch_size_bytes
    \/ Len(batch) >= constraints.max_records_per_batch

\* lines 131-134 without the test of line 131
FinishUnguarded(records, idx, batch, size, m) ==
    GenState("yield_final", records, idx, batch, size,
             [m EXCEPT !.batches_created = @ + 1])

\* lines 131-136: the input is exhausted
Finish(records, idx, batch, size, m) ==
    IF batch # << >>
    THEN GenState("yield_final", records, idx, batch, size,
                  [m EXCEPT !.batches_created = @ + 1])
    ELSE GenState("done", records, idx, batch, size, m)

RECURSIVE Loop(_, _, _, _, _)
\* lines 126-128 with the record inserted at the front of the batch
AppendRecordInFront(records, idx, batch, size, m) ==
    LET record_size == GetRecordSize(records.items[idx])
    IN  Loop(records, idx + 1, <<records.items[idx]>> \o batch, size + record_size,
             [m EXCEPT !.total_bytes_processed = @ + record_size])

\* lines 126-128, then the next iteration
AppendRecord(records, idx, batch, size, m) ==
    LET record_size == GetRecordSize(records.items[idx])
    IN  Loop(records, idx + 1, Append(batch, records.items[idx]), size + record_size,
             [m EXCEPT !.total_bytes_processed = @ + record_size])

\* the loop adding the size of a record to the accumulator before line 112
LoopCountsDiscardedBytes(records, idx, batch, size, m) ==
    IF idx > Len(records.items)
    THEN Finish(records, idx, batch, size, m)
    ELSE LET m1 == [m EXCEPT !.records_processed = @ + 1]
             v == IsValidRecord(records.items[idx], m1)
         IN  IF v.exc # "none"
             THEN GenState("raised", records, idx, batch, size, v.metrics)
             ELSE IF ~v.ret
             THEN Loop(records, idx + 1, batch,
                       size + GetRecordSize(records.items[idx]), v.metrics)
             ELSE IF BatchFull(batch, size, GetRecordSize(records.items[idx]))
             THEN IF batch # << >>
                  THEN GenState("yield", records, idx, batch, size,
                                [v.metrics EXCEPT !.batches_created = @ + 1])
                  ELSE AppendRecord(records, idx, << >>, 0, v.metrics)
             ELSE AppendRecord(records, idx, batch, size, v.metrics)

\* the loop without the test of line 119
LoopYieldsEmpty(records, idx, batch, size, m) ==
    IF idx > Len(records.items)
    THEN Finish(records, idx, batch, size, m)
    ELSE LET m1 == [m EXCEPT !.records_processed = @ + 1]
             v == IsValidRecord(records.items[idx], m1)
         IN  IF v.exc # "none"
             THEN GenState("raised", records, idx, batch, size, v.metrics)
             ELSE IF ~v.ret
             THEN Loop(records, idx + 1, batch, size, v.metrics)
             ELSE IF BatchFull(batch, size, GetRecordSize(records.items[idx]))
             THEN GenState("yield", records, idx, batch, size,
                           [v.metrics EXCEPT !.batches_created = @ + 1])
             ELSE AppendRecord(records, idx, batch, size, v.metrics)

\* the loop with line 110 after the validation of lines 112-114
LoopCountsValidOnly(records, idx, batch, size, m) ==
    IF idx > Len(records.items)
    THEN Finish(records, idx, batch, size, m)
    ELSE LET m1 == [m EXCEPT !.records_processed = @ + 1]
             v == IsValidRecord(records.items[idx], m1)
         IN  IF v.exc # "none"
             THEN GenState("raised", records, idx, batch, size, v.metrics)
             ELSE IF ~v.ret
             THEN Loop(records, idx + 1, batch, size,
                       [v.metrics EXCEPT !.records_processed = @ - 1])
             ELSE IF BatchFull(batch, size, GetRecordSize(records.items[idx]))
             THEN IF batch # << >>
                  THEN GenState("yield", records, idx, batch, size,
                                [v.metrics EXCEPT !.batches_created = @ + 1])
                  ELSE AppendRecord(records, idx, << >>, 0, v.metrics)
             ELSE AppendRecord(records, idx, batch, size, v.metrics)

\* the loop with line 128 before the test of line 118
LoopAddsBytesEarly(records, idx, batch, size, m) ==
    IF idx > Len(records.items)
    THEN Finish(records, idx, batch, size, m)
    ELSE LET m1 == [m EXCEPT !.records_processed = @ + 1]
             v == IsValidRecord(records.items[idx], m1)
         IN  IF v.exc # "none"
             THEN GenState("raised", records, idx, batch, size, v.metrics)
             ELSE IF ~v.ret
             THEN Loop(records, idx + 1, batch, size, v.metrics)
             ELSE IF BatchFull(batch, size, GetRecordSize(records.items[idx]))
             THEN IF batch # << >>
                  THEN GenState("yield", records, idx, batch, size,
                                [v.metrics EXCEPT
                                    !.batches_created = @ + 1,
                                    !.total_bytes_processed =
                                        @ + GetRecordSize(records.items[idx])])
                  ELSE AppendRecord(records, idx, << >>, 0, v.metrics)
             ELSE AppendRecord(records, idx, batch, size, v.metrics)

\* lines 108-129: the for loop from element idx on
Loop(records, idx, batch, size, m) ==
    IF idx > Len(records.items)
    THEN Finish(records, idx, batch, size, m)
    ELSE LET m1 == [m EXCEPT !.records_processed = @ + 1]
             v == IsValidRecord(records.items[idx], m1)
         IN  IF v.exc # "none"
             THEN GenState("raised", records, idx, batch, size, v.metrics)
             ELSE IF ~v.ret
             THEN Loop(records, idx + 1, batch, size, v.metrics)
             ELSE IF BatchFull(batch, size, GetRecordSize(records.items[idx]))
             THEN IF batch # << >>
                  THEN GenState("yield", records, idx, batch, size,
                                [v.metrics EXCEPT !.batches_created = @ + 1])
                  ELSE AppendRecord(records, idx, << >>, 0, v.metrics)
             ELSE AppendRecord(records, idx, batch, size, v.metrics)

\* create_batches without lines 100-101: any argument is traversed
ResumeUnchecked(g, m) ==
    CASE g.pc = "created" -> Loop(g.records, 1, << >>, 0, m)
      [] g.pc = "yield" -> AppendRecord(g.records, g.idx, << >>, 0, m)
      [] g.pc = "yield_final" ->
            GenState("done", g.records, g.idx, g.current_batch, g.current_batch_size, m)

\* create_batches checking every element before the traversal starts
ResumePrescan(g, m) ==
    CASE g.pc = "created" ->
            IF \/ g.records.type # "list"
               \/ \E i \in 1..Len(g.records.items) : g.records.items[i].type # "str"
            THEN GenState("raised", g.records, 0, << >>, 0, m)
            ELSE Loop(g.records, 1, << >>, 0, m)
      [] g.pc = "yield" -> AppendRecord(g.records, g.idx, << >>, 0, m)
      [] g.pc = "yield_final" ->
            GenState("done", g.records, g.idx, g.current_batch, g.current_batch_size, m)

\* create_batches that examines the whole list when first resumed and
\* then hands the batches out one by one
ResumeEager(g, m) ==
    CASE g.pc = "created" ->
            IF g.records.type # "list"
            THEN GenState("raised", g.records, 0, << >>, 0, m)
            ELSE LET r == Loop(g.records, 1, << >>, 0, m)
                 IN  [r EXCEPT !.metrics.records_processed =
                                   m.records_processed + Len(g.records.items)]
      [] g.pc = "yield" -> AppendRecord(g.records, g.idx, << >>, 0, m)
      [] g.pc = "yield_final" ->
            GenState("done", g.records, g.idx, g.current_batch, g.current_batch_size, m)

\* next(gen): what the generator does when it is resumed
Resume(g, m) ==
    CASE g.pc = "created" ->
            IF g.records.type # "list"
            THEN GenState("raised", g.records, 0, << >>, 0, m)
            ELSE Loop(g.records, 1, << >>, 0, m)
      [] g.pc = "yield" -> AppendRecord(g.records, g.idx, << >>, 0, m)
      [] g.pc = "yield_final" ->
            GenState("done", g.records, g.idx, g.current_batch, g.current_batch_size, m)

\* line 123 as current_batch.clear(): the list handed out is emptied
HandedBatchCleared(g) == << >>

\* The list object handed out at a yield is the generator's current_batch.
\* When the generator is resumed, line 123 binds current_batch to a new
\* list (after line 134 the generator returns), so the caller's list keeps
\* its content.
HandedBatch(g) == g.current_batch

(***************************************************************************)
(* Operations of the caller.                                               *)
(***************************************************************************)
\* processor.create_batches(records): builds the generator, runs none of it
CreateBatches ==
    /\ gen.pc = "none"
    /\ \E records \in Inputs :
          gen' = [pc |-> "created", records |-> records, idx |-> 0,
                  current_batch |-> << >>, current_batch_size |-> 0]
    /\ start' = metrics
    /\ direct' = 0
    /\ last' = Call("create_batches", NoneValue, "none", FALSE, metrics, metrics)
    /\ UNCHANGED <<constraints, metrics, emitted, calls, gen2, emitted2>>

\* next(gen) on a generator that has not finished
GenNext ==
    /\ gen.pc \in {"created", "yield", "yield_final"}
    /\ LET r == Resume(gen, metrics)
       IN  /\ gen' = r.gen
           /\ metrics' = r.metrics
           /\ LET kept == IF gen.pc \in {"yield", "yield_final"}
                           THEN [emitted EXCEPT ![Len(emitted)] = HandedBatch(gen)]
                           ELSE emitted
              IN  emitted' = IF r.gen.pc \in {"yield", "yield_final"}
                             THEN Append(kept, r.gen.current_batch)
                             ELSE kept
           /\ last' = Call("next", NoneValue,
                           CASE r.gen.pc = "raised" -> "TypeError"
                             [] r.gen.pc = "done" -> "StopIteration"
                             [] OTHER -> "none",
                           FALSE, metrics, r.metrics)
    /\ UNCHANGED <<constraints, start, direct, calls, gen2, emitted2>>

\* processor.is_valid_record(record), called by the caller itself
ValidateCall ==
    /\ calls < MaxValidateCalls
    /\ \E record \in Values :
          LET r == IsValidRecord(record, metrics)
          IN  /\ metrics' = r.metrics
              /\ last' = Call("is_valid_record", record, r.exc, r.ret,
                               metrics, r.metrics)
              /\ direct' = direct + (r.metrics.records_discarded
                                       - metrics.records_discarded)
    /\ calls' = calls + 1
    /\ UNCHANGED <<constraints, gen, emitted, start, gen2, emitted2>>

\* BatchMetrics.to_dict
ToDict(m) ==
    [records_processed |-> m.records_processed,
     records_discarded |-> m.records_discarded,
     batches_created |-> m.batches_created,
     total_bytes_processed |-> m.total_bytes_processed]

\* processor.get_metrics(): the snapshot is the call's "after" counters
GetMetrics ==
    /\ last.op # "get_metrics"
    /\ last' = Call("get_metrics", NoneValue, "none", FALSE, metrics, ToDict(metrics))
    /\ UNCHANGED <<constraints, metrics, gen, emitted, start, direct, calls, gen2, emitted2>>

\* closing that first runs the generator on to its next stop
CloseDraining ==
    /\ gen.pc \in {"created", "yield", "yield_final"}
    /\ gen' = [gen EXCEPT !.pc = "closed"]
    /\ metrics' = Resume(gen, metrics).metrics
    /\ last' = Call("close", NoneValue, "none", FALSE, metrics, metrics')
    /\ UNCHANGED <<constraints, emitted, start, direct, calls, gen2, emitted2>>

\* The caller stops consuming: gen.close(), or the generator is dropped and
\* collected.  GeneratorExit is raised at the yield where the generator is
\* suspended; it is no Exception, so line 138 does not catch it and the
\* generator ends there.  A generator never resumed just ends.
Close ==
    /\ gen.pc \in {"created", "yield", "yield_final"}
    /\ gen' = [gen EXCEPT !.pc = "closed"]
    /\ last' = Call("close", NoneValue, "none", FALSE, metrics, metrics)
    /\ UNCHANGED <<constraints, metrics, emitted, start, direct, calls, gen2, emitted2>>

Next == CreateBatches \/ GenNext \/ ValidateCall \/ GetMetrics \/ Close

(***************************************************************************)
(* Two traversals of one processor: the caller calls create_batches twice  *)
(* and resumes the two generators in any order, the second one while the   *)
(* first is suspended or after it has ended.                               *)
(***************************************************************************)
\* processor.create_batches(records), the first of the two calls
CreateFirst ==
    /\ gen.pc = "none"
    /\ \E records \in PairInputs :
          gen' = [pc |-> "created", records |-> records, idx |-> 0,
                  current_batch |-> << >>, current_batch_size |-> 0]
    /\ start' = metrics
    /\ direct' = 0
    /\ last' = Call("create_batches", NoneValue, "none", FALSE, metrics, metrics)
    /\ UNCHANGED <<constraints, metrics, emitted, calls, gen2, emitted2>>

\* a create_batches call that starts the counters afresh
CreateSecondResetting ==
    /\ gen.pc # "none"
    /\ gen2.pc = "none"
    /\ \E records \in SecondInputs :
          gen2' = [pc |-> "created", records |-> records, idx |-> 0,
                   current_batch |-> << >>, current_batch_size |-> 0]
    /\ metrics' = ZeroMetrics
    /\ last' = Call("create_batches", NoneValue, "none", FALSE, metrics, ZeroMetrics)
    /\ UNCHANGED <<constraints, gen, emitted, start, direct, calls, emitted2>>

\* processor.create_batches(records), the second call
CreateSecond ==
    /\ gen.pc # "none"
    /\ gen2.pc = "none"
    /\ \E records \in SecondInputs :
          gen2' = [pc |-> "created", records |-> records, idx |-> 0,
                   current_batch |-> << >>, current_batch_size |-> 0]
    /\ last' = Call("create_batches", NoneValue, "none", FALSE, metrics, metrics)
    /\ UNCHANGED <<constraints, metrics, gen, emitted, start, direct, calls, emitted2>>

\* next(gen2) of a traversal that counts in counters of its own
GenNextSecondPrivateCounters ==
    /\ gen2.pc \in {"created", "yield", "yield_final"}
    /\ LET r == Resume(gen2, metrics)
       IN  /\ gen2' = r.gen
           /\ LET kept == IF gen2.pc \in {"yield", "yield_final"}
                           THEN [emitted2 EXCEPT ![Len(emitted2)] = HandedBatch(gen2)]
                           ELSE emitted2
              IN  emitted2' = IF r.gen.pc \in {"yield", "yield_final"}
                              THEN Append(kept, r.gen.current_batch)
                              ELSE kept
           /\ last' = Call("next", NoneValue,
                           CASE r.gen.pc = "raised" -> "TypeError"
                             [] r.gen.pc = "done" -> "StopIteration"
                             [] OTHER -> "none",
                           FALSE, metrics, metrics)
    /\ UNCHANGED <<constraints, metrics, gen, emitted, start, direct, calls>>

\* next(gen2)
GenNextSecond ==
    /\ gen2.pc \in {"created", "yield", "yield_final"}
    /\ LET r == Resume(gen2, metrics)
       IN  /\ gen2' = r.gen
           /\ metrics' = r.metrics
           /\ LET kept == IF gen2.pc \in {"yield", "yield_final"}
                           THEN [emitted2 EXCEPT ![Len(emitted2)] = HandedBatch(gen2)]
                           ELSE emitted2
              IN  emitted2' = IF r.gen.pc \in {"yield", "yield_final"}
                              THEN Append(kept, r.gen.current_batch)
                              ELSE kept
           /\ last' = Call("next", NoneValue,
                           CASE r.gen.pc = "raised" -> "TypeError"
                             [] r.gen.pc = "done" -> "StopIteration"
                             [] OTHER -> "none",
                           FALSE, metrics, r.metrics)
    /\ UNCHANGED <<constraints, gen, emitted, start, direct, calls>>

NextPair ==
    \/ CreateFirst \/ GenNext \/ CreateSecond \/ GenNextSecond
    \/ ValidateCall \/ GetMetrics \/ Close

SpecPair == Init /\ [][NextPair]_vars

Spec == Init /\ [][Next]_vars

(***************************************************************************)
(* Vocabulary of the properties.                                           *)
(***************************************************************************)
RECURSIVE Flatten(_)
\* the records of a sequence of batches, in order
Flatten(batches) ==
    IF batches = << >> THEN << >> ELSE Head(batches) \o Flatten(Tail(batches))

RECURSIVE SumSizes(_)
\* the sum of the sizes create_batches measures for the records of a batch
SumSizes(batch) ==
    IF batch = << >> THEN 0 ELSE GetRecordSize(Head(batch)) + SumSizes(Tail(batch))

\* the record's size is within the per-record limit
WithinRecordLimit(record) ==
    GetRecordSize(record) <= constraints.max_record_size_bytes

\* the number of elements of items that exceed the per-record limit
NumOversized(items) ==
    Cardinality({i \in 1..Len(items) : ~WithinRecordLimit(items[i])})

\* the traversal ran to its end: the generator returned
Exhausted == gen.pc = "done"

(***************************************************************************)
(* C1  Order preservation: when create_batches over a list of text records *)
(* has been consumed to the end, the emitted batches, concatenated in      *)
(* emission order, are exactly the records of the input whose size is      *)
(* within max_record_size_bytes, in input order, none dropped, duplicated  *)
(* or reordered.                                                           *)
(***************************************************************************)
OrderPreservation ==
    Exhausted =>
        Flatten(emitted) = SelectSeq(gen.records.items, WithinRecordLimit)

\* a finished traversal that emitted two batches of different records and
\* discarded a record
OrderPreservationWitness ==
    /\ Exhausted
    /\ Len(emitted) >= 2
    /\ emitted[1][1] # emitted[2][1]
    /\ Len(Flatten(emitted)) < Len(gen.records.items)

(***************************************************************************)
(* C2  Per-batch bounds: every emitted batch holds at most                 *)
(* max_records_per_batch records, and the sizes of its records sum to at   *)
(* most max_batch_size_bytes unless it holds exactly one record.           *)
(***************************************************************************)
PerBatchBounds ==
    \A k \in 1..Len(emitted) :
        /\ Len(emitted[k]) <= constraints.max_records_per_batch
        /\ \/ SumSizes(emitted[k]) <= constraints.max_batch_size_bytes
           \/ Len(emitted[k]) = 1

\* a batch of two records that fills max_batch_size_bytes to the byte was
\* emitted, and a further batch after it
PerBatchBoundsWitness ==
    /\ Len(emitted) >= 2
    /\ Len(emitted[1]) = 2
    /\ SumSizes(emitted[1]) = constraints.max_batch_size_bytes

(***************************************************************************)
(* C3  Discard correctness: no emitted batch holds a record larger than    *)
(* max_record_size_bytes, and a full traversal adds to records_discarded   *)
(* exactly the number of oversized elements of its input (direct           *)
(* is_valid_record calls made meanwhile add their own discards).           *)
(***************************************************************************)
DiscardCorrectness ==
    /\ \A k \in 1..Len(emitted) :
          \A j \in 1..Len(emitted[k]) : WithinRecordLimit(emitted[k][j])
    /\ Exhausted =>
          metrics.records_discarded
              = start.records_discarded + direct + NumOversized(gen.records.items)

\* a finished traversal of an input with two oversized records and a valid one
DiscardCorrectnessWitness ==
    /\ Exhausted
    /\ NumOversized(gen.records.items) = 2
    /\ emitted # << >>

\* the UTF-8 byte length of a text record
Utf8Len(record) == Len(Utf8Encode(record.chars))

RECURSIVE SumUtf8Len(_)
\* the sum of the UTF-8 byte lengths of a sequence of records
SumUtf8Len(records) ==
    IF records = << >> THEN 0 ELSE Utf8Len(Head(records)) + SumUtf8Len(Tail(records))

\* a str value that UTF-8 can encode
EncodableText(value) == value.type = "str" /\ Encodable(value.chars)

\* the caller's most recent call was is_valid_record
Validated == last.op = "is_valid_record"

\* the four counters as the traversal alone leaves them: the counters now,
\* less the discards of direct is_valid_record calls made since it started
TraversalMetrics ==
    [metrics EXCEPT !.records_discarded = @ - direct]

(***************************************************************************)
(* C4  Boundary exactness: a text record whose UTF-8 byte length equals    *)
(* max_record_size_bytes is accepted: is_valid_record returns true and     *)
(* leaves records_discarded alone, and a traversal consumed to the end     *)
(* has the record in an emitted batch.                                     *)
(***************************************************************************)
BoundaryExactness ==
    /\ (Validated /\ EncodableText(last.arg)
           /\ Utf8Len(last.arg) = constraints.max_record_size_bytes)
         => /\ last.exc = "none"
            /\ last.ret
            /\ last.after.records_discarded = last.before.records_discarded
    /\ Exhausted =>
          \A i \in 1..Len(gen.records.items) :
              Utf8Len(gen.records.items[i]) = constraints.max_record_size_bytes
                  => \E k \in 1..Len(emitted) : \E j \in 1..Len(emitted[k]) :
                         emitted[k][j] = gen.records.items[i]

(***************************************************************************)
(* C5  Encoded size: the size create_batches adds up for the records of    *)
(* the current batch, which it compares with max_batch_size_bytes, is the  *)
(* UTF-8 byte length of those records.                                     *)
(***************************************************************************)
EncodedSize ==
    gen.current_batch_size = SumUtf8Len(gen.current_batch)

(***************************************************************************)
(* C6  Metrics accounting: on a fresh processor, after a traversal of a    *)
(* list of n text records consumed to the end, records_processed = n,      *)
(* batches_created = the number of batches emitted, and                    *)
(* total_bytes_processed = the sum of the UTF-8 byte lengths of the        *)
(* records of the emitted batches.                                         *)
(***************************************************************************)
MetricsAccounting ==
    (Exhausted /\ start = ZeroMetrics)
        => /\ metrics.records_processed = Len(gen.records.items)
           /\ metrics.batches_created = Len(emitted)
           /\ metrics.total_bytes_processed = SumUtf8Len(Flatten(emitted))

(***************************************************************************)
(* C7  Mid-stream abort: when the traversal of a list raises, it raises at *)
(* the first element that is not an encodable text value, having examined  *)
(* and counted every element up to it; the batches handed over before, and *)
(* the records left in the buffer, are together exactly the valid records  *)
(* before that element; the last of them is in the buffer, not in a batch, *)
(* and batches_created counts only the batches handed over.                *)
(***************************************************************************)
MidStreamAbort ==
    (gen.pc = "raised" /\ gen.records.type = "list")
        => LET items == gen.records.items
               i == gen.idx
               before == SelectSeq(SubSeq(items, 1, i - 1), WithinRecordLimit)
           IN  /\ i \in 1..Len(items)
               /\ ~EncodableText(items[i])
               /\ \A j \in 1..(i - 1) : EncodableText(items[j])
               /\ TraversalMetrics.records_processed = start.records_processed + i
               /\ Flatten(emitted) \o gen.current_batch = before
               /\ before # << >> => gen.current_batch # << >>
               /\ metrics.batches_created = start.batches_created + Len(emitted)

\* the traversal raised at a non-text element after it had handed over a
\* batch, with a valid record still in the buffer
MidStreamAbortWitness ==
    /\ gen.pc = "raised"
    /\ gen.records.type = "list"
    /\ gen.records.items[gen.idx].type # "str"
    /\ emitted # << >>
    /\ gen.current_batch # << >>

(***************************************************************************)
(* C8  Argument errors leave the state unchanged: is_valid_record of a     *)
(* non-text value raises TypeError and changes no counter; create_batches  *)
(* of a non-list raises TypeError when first resumed, examines no element, *)
(* emits no batch and changes no counter.                                  *)
(***************************************************************************)
ArgumentErrors ==
    /\ (Validated /\ last.arg.type # "str")
          => last.exc = "TypeError" /\ last.after = last.before
    /\ gen.records.type # "list"
          => /\ gen.pc \in {"created", "raised", "closed"}
             /\ gen.idx = 0
             /\ emitted = << >>
             /\ TraversalMetrics = start
             /\ last.op = "next" => last.exc = "TypeError" /\ last.after = last.before

\* create_batches of a tuple has raised, and then is_valid_record(None) has
ArgumentErrorsWitness ==
    /\ gen.pc = "raised"
    /\ gen.records.type = "tuple"
    /\ gen.records.items # << >>
    /\ Validated
    /\ last.arg = NoneValue

(***************************************************************************)
(* C9  Effect of validate: for every text record, is_valid_record returns  *)
(* true iff the record's size is within max_record_size_bytes; returning   *)
(* true it changes no counter; returning false it adds 1 to                *)
(* records_discarded and changes no other counter.                         *)
(***************************************************************************)
ValidateEffect ==
    (Validated /\ last.arg.type = "str")
        => /\ last.exc = "none"
           /\ last.ret = WithinRecordLimit(last.arg)
           /\ last.ret => last.after = last.before
           /\ ~last.ret =>
                 last.after = [last.before EXCEPT !.records_discarded = @ + 1]

(***************************************************************************)
(* C10  Empty input: a traversal of the empty list emits no batch and      *)
(* changes no counter; it ends at its first resumption, and on a fresh     *)
(* processor all four counters are zero afterwards.                        *)
(***************************************************************************)
EmptyInput ==
    (gen.records = ListOf(<< >>) /\ gen.pc \notin {"none", "created", "closed"})
        => /\ Exhausted
           /\ emitted = << >>
           /\ TraversalMetrics = start
           /\ last.op = "next" => last.exc = "StopIteration" /\ last.after = last.before
           /\ (start = ZeroMetrics /\ direct = 0) => metrics = ZeroMetrics

\* the traversal of the empty list on a fresh processor has ended
EmptyInputWitness ==
    /\ Exhausted
    /\ gen.records = ListOf(<< >>)
    /\ last.op = "next"
    /\ start = ZeroMetrics

(***************************************************************************)
(* C11  Lazy, eager-per-batch emission: until the caller first resumes the *)
(* generator no element is examined; while the generator is suspended at   *)
(* the yield of a non-final batch, the traversal has examined exactly the  *)
(* elements up to the one whose arrival closed the batch (a valid record   *)
(* that could not join it), whatever else the caller does meanwhile.       *)
(***************************************************************************)
LazyEmission ==
    /\ gen.pc = "created" =>
          gen.idx = 0 /\ emitted = << >> /\ TraversalMetrics = start
    /\ gen.pc = "yield" =>
          /\ gen.idx \in 1..Len(gen.records.items)
          /\ TraversalMetrics.records_processed = start.records_processed + gen.idx
          /\ emitted[Len(emitted)] = gen.current_batch
          /\ WithinRecordLimit(gen.records.items[gen.idx])
          /\ BatchFull(gen.current_batch, gen.current_batch_size,
                       GetRecordSize(gen.records.items[gen.idx]))

\* a non-final batch has been handed over with input still unexamined, and
\* the caller has called is_valid_record while the generator is suspended
LazyEmissionWitness ==
    /\ gen.pc = "yield"
    /\ gen.idx < Len(gen.records.items)
    /\ Validated

\* the number of elements the traversal has examined when it is suspended
\* (idx is the element that closed the batch, or one past the end)
Examined ==
    IF gen.idx > Len(gen.records.items) THEN Len(gen.records.items) ELSE gen.idx

\* The counters of a traversal that has handed over the batches in emitted
\* and examined the first n elements: n records processed, the oversized
\* ones among them discarded, one batch created per batch handed over, and
\* the sizes of the records in those batches.
HandOverMetrics(n) ==
    [records_processed |-> start.records_processed + n,
     records_discarded |->
         start.records_discarded + NumOversized(SubSeq(gen.records.items, 1, n)),
     batches_created |-> start.batches_created + Len(emitted),
     total_bytes_processed |->
         start.total_bytes_processed + SumSizes(Flatten(emitted))]

(***************************************************************************)
(* C13  Abandonment: once the caller has stopped consuming after k         *)
(* batches, the generator is finished with exactly those k batches handed  *)
(* over, and the four counters are the ones of the k-th hand-over: the     *)
(* elements examined up to it, the batches created up to it and the bytes  *)
(* of the records in those batches, neither less nor more; the valid       *)
(* records after those batches are in no batch.                            *)
(***************************************************************************)
Abandonment ==
    gen.pc = "closed" =>
        /\ TraversalMetrics = HandOverMetrics(Examined)
        /\ Flatten(emitted)
             = SelectSeq(SubSeq(gen.records.items, 1, Examined
                                   - (IF gen.idx = Examined /\ gen.idx > 0 THEN 1 ELSE 0)),
                         WithinRecordLimit)
        /\ last.op \in {"close", "get_metrics"} => last.after = metrics

\* the caller stopped after a first, non-final batch, leaving unexamined
\* input behind, and then read the counters
AbandonmentWitness ==
    /\ gen.pc = "closed"
    /\ Len(emitted) = 1
    /\ gen.idx < Len(gen.records.items)
    /\ last.op = "get_metrics"

\* a record within the per-record limit that alone exceeds the batch limit
OversizedSingleton(record) ==
    /\ WithinRecordLimit(record)
    /\ GetRecordSize(record) > constraints.max_batch_size_bytes

(***************************************************************************)
(* C14  Oversized singleton: in a traversal consumed to the end, every     *)
(* record within max_record_size_bytes but larger than                     *)
(* max_batch_size_bytes is emitted, whole, as a batch of exactly that one  *)
(* record: one such batch per occurrence in the input, and no batch holds  *)
(* such a record together with another record.                             *)
(***************************************************************************)
OversizedSingletonBatch ==
    Exhausted =>
        /\ \A k \in 1..Len(emitted) :
              (\E j \in 1..Len(emitted[k]) : OversizedSingleton(emitted[k][j]))
                  => Len(emitted[k]) = 1
        /\ Cardinality({k \in 1..Len(emitted) : OversizedSingleton(emitted[k][1])})
             = Cardinality({i \in 1..Len(gen.records.items) :
                               OversizedSingleton(gen.records.items[i])})

\* such a record was emitted alone between a batch before it and a batch
\* after it
OversizedSingletonBatchWitness ==
    /\ Exhausted
    /\ Len(emitted) = 3
    /\ OversizedSingleton(emitted[2][1])
    /\ ~OversizedSingleton(emitted[1][1])
    /\ ~OversizedSingleton(emitted[3][1])

(***************************************************************************)
(* C15  Greedy closure: a batch is closed only when the next valid record  *)
(* cannot join it: of any two consecutive emitted batches, the first holds *)
(* max_records_per_batch records, or its size plus the size of the first   *)
(* record of the second exceeds max_batch_size_bytes.                      *)
(***************************************************************************)
GreedyClosure ==
    \A k \in 1..(Len(emitted) - 1) :
        \/ Len(emitted[k]) = constraints.max_records_per_batch
        \/ SumSizes(emitted[k]) + GetRecordSize(emitted[k + 1][1])
              > constraints.max_batch_size_bytes

\* a batch was closed by the byte limit with room left in its record
\* count, by a record that fits a batch of its own
GreedyClosureWitness ==
    /\ Len(emitted) >= 2
    /\ Len(emitted[1]) < constraints.max_records_per_batch
    /\ SumSizes(emitted[1]) <= constraints.max_batch_size_bytes
    /\ GetRecordSize(emitted[2][1]) <= constraints.max_batch_size_bytes

(***************************************************************************)
(* The batches a traversal of a list hands over when it runs alone, from   *)
(* its first resumption to its end (none once it raises), and the counters *)
(* it adds.                                                                *)
(***************************************************************************)
RECURSIVE RunAlone(_, _, _)
RunAlone(g, m, batches) ==
    IF g.pc \notin {"created", "yield", "yield_final"}
    THEN [pc |-> g.pc, batches |-> batches, metrics |-> m]
    ELSE LET r == Resume(g, m)
         IN  RunAlone(r.gen, r.metrics,
                      IF r.gen.pc \in {"yield", "yield_final"}
                      THEN Append(batches, r.gen.current_batch)
                      ELSE batches)

Alone(records) ==
    RunAlone([pc |-> "created", records |-> records, idx |-> 0,
              current_batch |-> << >>, current_batch_size |-> 0],
             ZeroMetrics, << >>)

(***************************************************************************)
(* C16  Discarded records do not influence batching: a traversal consumed  *)
(* to the end emits the very batches that a traversal of the same input    *)
(* without its oversized records emits; and whenever the generator is      *)
(* suspended, its buffer and byte accumulator hold valid records only.     *)
(***************************************************************************)
DiscardsDoNotInfluence ==
    /\ Exhausted =>
          emitted = Alone(ListOf(SelectSeq(gen.records.items, WithinRecordLimit))).batches
    /\ gen.pc \in {"yield", "yield_final"} =>
          /\ \A j \in 1..Len(gen.current_batch) : WithinRecordLimit(gen.current_batch[j])
          /\ gen.current_batch_size = SumSizes(gen.current_batch)

\* a finished traversal whose input had an oversized record between two
\* valid records that share a batch
DiscardsDoNotInfluenceWitness ==
    /\ Exhausted
    /\ Len(gen.records.items) = 3
    /\ ~WithinRecordLimit(gen.records.items[2])
    /\ Len(emitted) = 1
    /\ Len(emitted[1]) = 2

\* a value create_batches puts in a batch: encodable text within the limit
ValidRecord(value) == EncodableText(value) /\ WithinRecordLimit(value)

\* the number of valid records among items
NumValid(items) == Cardinality({i \in 1..Len(items) : ValidRecord(items[i])})

(***************************************************************************)
(* C17  No empty batch: every batch handed over holds at least one record, *)
(* and the number of batches handed over never exceeds the number of valid *)
(* records of the input.                                                   *)
(***************************************************************************)
NoEmptyBatch ==
    /\ \A k \in 1..Len(emitted) : emitted[k] # << >>
    /\ Len(emitted) <= NumValid(gen.records.items)
    /\ metrics.batches_created - start.batches_created <= NumValid(gen.records.items)

\* every record was flushed on its own, the first of them an oversized
\* singleton that arrived at an empty buffer
NoEmptyBatchWitness ==
    /\ Exhausted
    /\ Len(emitted) = 3
    /\ OversizedSingleton(gen.records.items[1])

(***************************************************************************)
(* C18  Record conservation: after a traversal consumed to the end, the    *)
(* records it processed are the records it discarded plus the records in   *)
(* the batches it emitted, which are the valid records of the input; on a  *)
(* processor used through create_batches only, records_processed =         *)
(* records_discarded + the number of records in the emitted batches.       *)
(***************************************************************************)
RecordConservation ==
    Exhausted =>
        /\ TraversalMetrics.records_processed - start.records_processed
             = (TraversalMetrics.records_discarded - start.records_discarded)
                  + Len(Flatten(emitted))
        /\ Len(Flatten(emitted)) = NumValid(gen.records.items)
        /\ calls = 0 =>
              metrics.records_processed
                 = metrics.records_discarded + Len(Flatten(emitted))

\* small records followed by an oversized one, consumed to the end with no
\* other call on the processor: one batch, one discard
RecordConservationWitness ==
    /\ Exhausted
    /\ calls = 0
    /\ Len(gen.records.items) = 3
    /\ ~WithinRecordLimit(gen.records.items[3])
    /\ Len(emitted) = 1
    /\ Len(emitted[1]) = 2
    /\ metrics.records_discarded = 1

(***************************************************************************)
(* C19  Mid-traversal metrics consistency: in the traversal of a fresh     *)
(* processor, whenever a batch has just been handed over, batches_created  *)
(* is the number of batches handed over so far and total_bytes_processed   *)
(* is the sum of the sizes of the records in those batches; at a non-final *)
(* batch the record that closed it is counted in records_processed and in  *)
(* no batch yet; get_metrics returns these counters.                       *)
(***************************************************************************)
MidTraversalMetrics ==
    (gen.pc \in {"yield", "yield_final"} /\ start = ZeroMetrics)
        => /\ metrics.batches_created = Len(emitted)
           /\ metrics.total_bytes_processed = SumSizes(Flatten(emitted))
           /\ gen.pc = "yield" =>
                 TraversalMetrics.records_processed
                    = TraversalMetrics.records_discarded + Len(Flatten(emitted)) + 1
           /\ gen.pc = "yield_final" =>
                 TraversalMetrics.records_processed
                    = TraversalMetrics.records_discarded + Len(Flatten(emitted))
           /\ last.op = "get_metrics" => last.after = metrics

\* the counters were read right after the second batch, a non-final one
MidTraversalMetricsWitness ==
    /\ gen.pc = "yield"
    /\ start = ZeroMetrics
    /\ Len(emitted) = 2
    /\ last.op = "get_metrics"

\* the names of the four counters
Counters == DOMAIN ZeroMetrics

(***************************************************************************)
(* C12  Metrics monotonicity: the four counters are zero when the          *)
(* processor is constructed; over every sequence of direct is_valid_record *)
(* calls, steps of two successive or overlapping create_batches            *)
(* traversals, get_metrics calls, traversals that raise and traversals     *)
(* that are closed, every counter stays non-negative and no step decreases *)
(* one: the second traversal goes on from the counts the first one left.   *)
(***************************************************************************)
MetricsMonotonicity ==
    /\ metrics = ZeroMetrics
    /\ [](\A c \in Counters : metrics[c] >= 0)
    /\ [][\A c \in Counters : metrics'[c] >= metrics[c]]_vars

\* the first traversal was closed after a batch, a direct call discarded a
\* record, and the second traversal ran to its end on top of those counts
MetricsMonotonicityWitness ==
    /\ gen.pc = "closed"
    /\ Len(emitted) >= 1
    /\ direct >= 1
    /\ gen2.pc = "done"
    /\ Len(emitted2) >= 1
    /\ metrics.batches_created > Len(emitted2)

\* s is an initial part of t
IsPrefix(s, t) == Len(s) <= Len(t) /\ s = SubSeq(t, 1, Len(s))

\* a traversal that has ended by itself: exhausted, or ended by a raise
Finished(g) == g.pc \in {"done", "raised"}

(***************************************************************************)
(* C20  Interleaved traversals: when the caller resumes two traversals of  *)
(* one processor in any order, the batches each has handed over are the    *)
(* first batches it hands over when run alone, and all of them once it has *)
(* ended; when both have ended, each counter has grown, since the first    *)
(* create_batches call, by the sum of what the two traversals add when run *)
(* alone (records_discarded also by the direct is_valid_record discards).  *)
(***************************************************************************)
InterleavedTraversals ==
    /\ gen.pc # "none" =>
          /\ IsPrefix(emitted, Alone(gen.records).batches)
          /\ Finished(gen) => emitted = Alone(gen.records).batches
    /\ gen2.pc # "none" =>
          /\ IsPrefix(emitted2, Alone(gen2.records).batches)
          /\ Finished(gen2) => emitted2 = Alone(gen2.records).batches
    /\ (Finished(gen) /\ Finished(gen2)) =>
          LET a == Alone(gen.records).metrics
              b == Alone(gen2.records).metrics
          IN  \A c \in Counters :
                 metrics[c] = start[c] + a[c] + b[c]
                                + (IF c = "records_discarded" THEN direct ELSE 0)

\* both traversals are suspended inside their inputs, each with a batch
\* handed over: whichever is resumed next, the other ran in between
InterleavedTraversalsWitness ==
    /\ gen.pc = "yield"
    /\ gen2.pc = "yield"
    /\ Len(emitted) >= 1
    /\ Len(emitted2) >= 1

=============================================================================
